---- MODULE Spec2Model ----
(***************************************************************************)
(* Real-time synchronisation subsystem of the pair-programming backend:    *)
(* the websocket endpoint (routers/websocket.py), the room store it reads  *)
(* and writes (models.py) and the room endpoints that change that store    *)
(* (routers/rooms.py).                                                     *)
(*                                                                         *)
(* Granularity.  websocket_endpoint is a coroutine: other coroutines run   *)
(* only while it is suspended in an await.  Every action below is the code *)
(* between two awaits; the position a handler is suspended at is pc[w].    *)
(* The REST endpoints are plain functions run on worker threads.           *)
(***************************************************************************)
EXTENDS Integers, Sequences, FiniteSets, TLC

\* ---- bounds -------------------------------------------------------------
NumWS == 3          \* websocket connections opened during a run
MaxUpdates == 2     \* text frames received by the server during a run
MaxPending == 1     \* join requests per (room, user) between check and insert
NumGateWS == 2      \* websockets opened under SpecGate
NumSyncWS == 2      \* websockets opened under SpecSync
MaxRoomUpdates == 1 \* text frames received under SpecRoom
MaxLiveUpdates == 1 \* text frames received under SpecLive
MaxStoreUpdates == 3 \* text frames received under SpecStore

WS == 1..NumWS
Users == {"u1", "u2"}
RoomIds == {"r1", "r2"}
Docs == {"a", "b"}
None == "None"
Expired == "Expired"

\* ---- collaborators whose code is not part of the sources ----------------
\* utils.auth_utils.decode_access_token: the payload of a valid token, else None
decode_access_token(tok) == IF tok.valid THEN tok.sub ELSE None

\* utils.auth_utils.get_password_hash / verify_password
get_password_hash(pw) == <<"hash", pw>>
verify_password(pw, h) == h = <<"hash", pw>>

NoToken == [present |-> FALSE, valid |-> FALSE, sub |-> None]
Tokens == {NoToken, [present |-> TRUE, valid |-> FALSE, sub |-> "u2"]}
            \cup {[present |-> TRUE, valid |-> TRUE, sub |-> u] : u \in Users}

\* ---- state --------------------------------------------------------------
VARIABLES
    rooms,          \* table rooms: live room id -> row
    issued,         \* room ids create_room has generated so far
    participants,   \* table room_participants: <<room, user>> -> number of rows
    pending,        \* join_room calls past their checks, row not yet inserted
    connections,    \* websocket.py:15, room id -> list of attached websockets
    pc,             \* where each handler stands
    room_id,        \* handler argument
    user_id,        \* handler local (line 28/35)
    room_code,      \* room.code as the handler's ORM session holds it (None: no
                    \* room loaded, Expired: to be reloaded on the next read)
    data,           \* text being sent by the handler (line 86 / 90)
    it,             \* the running for-loop over connections[room_id]
    closed,         \* the transport of the websocket is closed
    sent,           \* frames written to each websocket, in order
    updates,        \* text frames received so far
    fan,            \* for the running loop of a handler: the list at its
                    \* start, whom it has sent to, whether the list changed
    attached_before \* the websockets in the room when the handler attached

dbvars == <<rooms, issued, participants, pending>>
hvars == <<pc, room_id, user_id, room_code, data, it, fan, attached_before>>
vars == <<rooms, issued, participants, pending, connections, pc, room_id,
          user_id, room_code, data, it, closed, sent, updates, fan, attached_before>>

NoIter == [list |-> <<>>, idx |-> 0, live |-> FALSE]
NoFan == [kind |-> None, start |-> {}, rcpt |-> {}, quiet |-> TRUE]

Range(s) == {s[i] : i \in 1..Len(s)}

Init ==
    /\ rooms = [r \in {} |-> <<>>]
    /\ issued = {}
    /\ participants = [p \in RoomIds \X Users |-> 0]
    /\ pending = [p \in RoomIds \X Users |-> 0]
    /\ connections = [r \in {} |-> <<>>]
    /\ pc = [w \in WS |-> "idle"]
    /\ room_id = [w \in WS |-> None]
    /\ user_id = [w \in WS |-> None]
    /\ room_code = [w \in WS |-> None]
    /\ data = [w \in WS |-> ""]
    /\ it = [w \in WS |-> NoIter]
    /\ closed = [w \in WS |-> FALSE]
    /\ sent = [w \in WS |-> <<>>]
    /\ updates = 0
    /\ fan = [w \in WS |-> NoFan]
    /\ attached_before = [w \in WS |-> {}]

\* ---- room endpoints (routers/rooms.py) ----------------------------------
\* The requests enumerated: "r1" is the id uuid4 gives a public room, "r2" the
\* id it gives a private room with password "pw".
IsPrivateRequest(r) == r = "r2"
RequestPassword(r) == IF r = "r2" THEN "pw" ELSE None
JoinPasswords == {None, "pw", "bad"}

Without(f, r) == [k \in DOMAIN f \ {r} |-> f[k]]
With(f, r, v) == [k \in DOMAIN f \cup {r} |-> IF k = r THEN v ELSE f[k]]

\* lines 85-99: the row create_room inserts
NewRoom(current_user, r) ==
    [code |-> "",
     admin_id |-> current_user,
     is_private |-> IsPrivateRequest(r),
     password_hash |-> IF RequestPassword(r) # None
                       THEN get_password_hash(RequestPassword(r))
                       ELSE <<>>]

\* POST /rooms
create_room(current_user, r) ==
    /\ r \notin issued
    /\ ~(IsPrivateRequest(r) /\ RequestPassword(r) = None)
    /\ issued' = issued \cup {r}
    /\ rooms' = With(rooms, r, NewRoom(current_user, r))
    /\ participants' = [participants EXCEPT ![<<r, current_user>>] = @ + 1]
    /\ UNCHANGED <<pending, connections, hvars, closed, sent, updates>>

\* POST /rooms/{room_id}/join, lines 205-230: the checks
JoinAccepted(current_user, r, password) ==
    /\ r \in DOMAIN rooms
    /\ participants[<<r, current_user>>] = 0
    /\ rooms[r].is_private =>
          /\ password # None
          /\ rooms[r].password_hash # <<>>
          /\ verify_password(password, rooms[r].password_hash)

join_room_check(current_user, r, password) ==
    /\ JoinAccepted(current_user, r, password)
    /\ pending[<<r, current_user>>] < MaxPending
    /\ pending' = [pending EXCEPT ![<<r, current_user>>] = @ + 1]
    /\ UNCHANGED <<rooms, issued, participants, connections, hvars, closed, sent, updates>>

\* POST /rooms/{room_id}/join, lines 232-239: the insert and commit.  The
\* commit fails (foreign key) when the room was deleted meanwhile.
join_room_commit(current_user, r) ==
    /\ pending[<<r, current_user>>] > 0
    /\ pending' = [pending EXCEPT ![<<r, current_user>>] = @ - 1]
    /\ participants' = IF r \in DOMAIN rooms
                       THEN [participants EXCEPT ![<<r, current_user>>] = @ + 1]
                       ELSE participants
    /\ UNCHANGED <<rooms, issued, connections, hvars, closed, sent, updates>>

\* DELETE /rooms/{room_id}; the participants go with the room (cascade)
delete_room(current_user, r) ==
    /\ r \in DOMAIN rooms
    /\ rooms[r].admin_id = current_user
    /\ rooms' = Without(rooms, r)
    /\ participants' = [p \in RoomIds \X Users |->
                           IF p[1] = r THEN 0 ELSE participants[p]]
    /\ UNCHANGED <<issued, pending, connections, hvars, closed, sent, updates>>

\* ---- the websocket endpoint (routers/websocket.py) ----------------------
\* What a handler step may change, as one record; a step computes the record
\* it ends with and Commit makes it the next state.
Cur == [connections |-> connections, participants |-> participants, rooms |-> rooms,
        pc |-> pc, room_id |-> room_id, user_id |-> user_id, room_code |-> room_code, data |-> data,
        it |-> it, closed |-> closed, sent |-> sent, fan |-> fan,
        attached_before |-> attached_before, failed |-> FALSE]

Commit(st) ==
    /\ connections' = st.connections
    /\ participants' = st.participants
    /\ rooms' = st.rooms
    /\ pc' = st.pc
    /\ room_id' = st.room_id
    /\ user_id' = st.user_id
    /\ room_code' = st.room_code
    /\ data' = st.data
    /\ it' = st.it
    /\ closed' = st.closed
    /\ sent' = st.sent
    /\ fan' = st.fan
    /\ attached_before' = st.attached_before

InLoop(st, x) == st.pc[x] \in {"join_fanout", "code_fanout", "left_fanout"}

\* A loop of handler x that iterates the list object now bound to connections[r]
Iterates(st, x, r) == InLoop(st, x) /\ st.room_id[x] = r /\ st.it[x].live

\* db.query(User).filter(User.id == user_id).first()
UserRow(u) == u \in Users

\* websocket.send_json on websocket `to`: raises when its transport is closed
CanSend(st, to) == ~st.closed[to]
Frame(type, src, content) == [type |-> type, src |-> src, content |-> content]
send_json(st, to, frame) == [st EXCEPT !.sent[to] = Append(@, frame)]

\* the handler returned or raised (db.close, line 134): the server closes the
\* transport; what the handler and its client held is gone
Done(w, st) ==
    [st EXCEPT !.pc[w] = "done", !.closed[w] = TRUE, !.it[w] = NoIter, !.fan[w] = NoFan,
               !.data[w] = "", !.room_code[w] = None, !.attached_before[w] = {},
               !.sent[w] = <<>>]

\* Detach without the deletion of lines 116-117
Detach_NoPrune(conns, r, w) ==
    IF r \in DOMAIN conns
    THEN [conns EXCEPT ![r] = SelectSeq(conns[r], LAMBDA c : c # w)]
    ELSE conns

\* Detach with the filter of line 113 keeping every entry
Detach_KeepsAll(conns, r, w) == conns

\* lines 110-117: the list rebound without `w`, the key dropped when it is empty
Detach(conns, r, w) ==
    IF r \in DOMAIN conns
    THEN LET rest == SelectSeq(conns[r], LAMBDA c : c # w)
         IN  IF rest = <<>> THEN Without(conns, r) ELSE [conns EXCEPT ![r] = rest]
    ELSE conns

\* Attach with the connection appended to the list of every room in the registry
Attach_EveryRoom(conns, r, w) ==
    [k \in DOMAIN conns \cup {r} |-> IF k \in DOMAIN conns THEN Append(conns[k], w) ELSE <<w>>]

\* Attach without the test of line 45: the room's list is created anew
Attach_NewList(conns, r, w) == With(conns, r, <<w>>)

\* lines 45-50: the key created when missing, `w` appended in place
Attach(conns, r, w) ==
    IF r \in DOMAIN conns THEN [conns EXCEPT ![r] = Append(@, w)] ELSE With(conns, r, <<w>>)

\* NextTarget without the test of lines 78 and 100
NextTarget_NoSelfTest(list, i, w, skip_self) == IF i <= Len(list) THEN i ELSE Len(list) + 1

\* the next index at or after i whose element the loop body sends to
\* (lines 78 and 100 skip the handler's own websocket, line 128 skips nothing)
NextTarget(list, i, w, skip_self) ==
    LET C == {j \in i..Len(list) : ~skip_self \/ list[j] # w}
    IN  IF C = {} THEN Len(list) + 1 ELSE CHOOSE j \in C : \A k \in C : j <= k

SkipsSelf(kind) == kind # "user_left"

\* LoopPc with the update loop started without being awaited: the handler is
\* back in receive_text while the loop still has elements to send to
LoopPc_NotAwaited(kind) ==
    CASE kind = "user_joined" -> "join_fanout"
      [] kind = "code" -> "receive"
      [] kind = "user_left" -> "left_fanout"

LoopPc(kind) == CASE kind = "user_joined" -> "join_fanout"
                  [] kind = "code" -> "code_fanout"
                  [] kind = "user_left" -> "left_fanout"

\* lines 85-90: room.code is read from the handler's session (reloaded when the
\* last commit expired it; reloading a deleted row raises), sent when non-empty
RoomCodeRead(w, st) ==
    IF st.room_code[w] # Expired THEN st.room_code[w]
    ELSE IF st.room_id[w] \in DOMAIN st.rooms THEN st.rooms[st.room_id[w]].code
    ELSE None

\* Leave without the tests of lines 120 and 122 on the identity
Leave_NoIdentityTest(w, st, user_query_ok) ==
    IF st.room_id[w] \in DOMAIN st.connections /\ st.connections[st.room_id[w]] # <<>>
    THEN LET list == st.connections[st.room_id[w]]
         IN  [st EXCEPT !.pc[w] = "left_fanout",
                        !.it[w] = [list |-> list, idx |-> 1, live |-> TRUE],
                        !.fan[w] = [kind |-> "user_left", start |-> Range(list),
                                    rcpt |-> {}, quiet |-> TRUE]]
    ELSE Done(w, st)

\* lines 119-134
Leave(w, st, user_query_ok) ==
    IF /\ st.user_id[w] # None
       /\ user_query_ok
       /\ UserRow(st.user_id[w])
       /\ st.room_id[w] \in DOMAIN st.connections
       /\ st.connections[st.room_id[w]] # <<>>
    THEN LET list == st.connections[st.room_id[w]]
         IN  [st EXCEPT !.pc[w] = "left_fanout",
                        !.it[w] = [list |-> list, idx |-> 1, live |-> TRUE],
                        !.fan[w] = [kind |-> "user_left", start |-> Range(list),
                                    rcpt |-> {}, quiet |-> TRUE]]
    ELSE Done(w, st)

\* Finally with the left loop set up on the list as it is before line 111
Finally_NotifyFirst(w, st, user_query_ok) ==
    [Leave(w, st, user_query_ok) EXCEPT
        !.connections = Detach(st.connections, st.room_id[w], w)]

\* lines 106-134: the finally block up to its first await
Finally(w, st, user_query_ok) ==
    LET r == st.room_id[w]
        rebound == r \in DOMAIN st.connections
        removed == rebound /\ w \in Range(st.connections[r])
        st1 == [st EXCEPT
                  !.connections = Detach(st.connections, r, w),
                  !.it = [x \in WS |->
                            IF x # w /\ rebound /\ Iterates(st, x, r)
                            THEN [st.it[x] EXCEPT !.live = FALSE] ELSE st.it[x]],
                  !.fan = [x \in WS |->
                            IF x # w /\ removed /\ InLoop(st, x) /\ st.room_id[x] = r
                            THEN [st.fan[x] EXCEPT !.quiet = FALSE] ELSE st.fan[x]]]
    IN  Leave(w, st1, user_query_ok)

AfterJoin(w, st) ==
    LET code == RoomCodeRead(w, st)
    IN  IF code = None THEN Finally(w, st, TRUE)
        ELSE IF code # ""
        THEN [st EXCEPT !.room_code[w] = code, !.data[w] = code, !.pc[w] = "init_send",
                        !.it[w] = NoIter, !.fan[w] = NoFan]
        ELSE [st EXCEPT !.room_code[w] = code, !.pc[w] = "receive", !.it[w] = NoIter,
                        !.fan[w] = NoFan]

\* what follows a loop that has no element left
LoopDone(w, st, kind) ==
    CASE kind = "user_joined" -> AfterJoin(w, st)
      [] kind = "code" -> [st EXCEPT !.pc[w] = "receive", !.it[w] = NoIter,
                                     !.fan[w] = NoFan, !.data[w] = ""]
      [] kind = "user_left" -> Done(w, st)

\* lines 77 / 99: the loop over connections[room_id] starts; the handler
\* suspends in the first send_json, if there is one
StartLoop(w, st, kind) ==
    LET list == st.connections[st.room_id[w]]
        i == NextTarget(list, 1, w, SkipsSelf(kind))
        st1 == [st EXCEPT !.it[w] = [list |-> list, idx |-> i, live |-> TRUE],
                          !.fan[w] = [kind |-> kind, start |-> Range(list),
                                      rcpt |-> {}, quiet |-> TRUE],
                          !.pc[w] = LoopPc(kind)]
    IN  IF i > Len(list) THEN LoopDone(w, st1, kind) ELSE st1

\* ---- actions of the endpoint --------------------------------------------
\* The client goes away: its transport is closed from now on.
ClientClose(w) ==
    /\ pc[w] \notin {"idle", "done"}
    /\ ~closed[w]
    /\ closed' = [closed EXCEPT ![w] = TRUE]
    /\ UNCHANGED <<dbvars, connections, hvars, sent, updates>>

\* lines 31-35
Authenticate(tok) ==
    IF tok.present
    THEN LET payload == decode_access_token(tok)
         IN  IF payload # None THEN payload ELSE None
    ELSE None

\* lines 52-66: the participant row added when there is none; commit_ok is
\* whether db.commit() succeeds
Provision(w, st, commit_ok) ==
    LET key == <<st.room_id[w], st.user_id[w]>>
    IN  IF st.participants[key] # 0 THEN st
        ELSE IF commit_ok
        THEN [st EXCEPT !.participants[key] = @ + 1, !.room_code[w] = Expired]
        ELSE [st EXCEPT !.failed = TRUE]

\* lines 44-50, with what an append in place does to the loops running on the list
Register(w, st) ==
    LET r == st.room_id[w]
        before == IF r \in DOMAIN st.connections THEN Range(st.connections[r]) ELSE {}
    IN  [st EXCEPT
           !.connections = Attach(st.connections, r, w),
           !.attached_before[w] = before,
           !.it = [x \in WS |->
                     IF Iterates(st, x, r)
                     THEN [st.it[x] EXCEPT !.list = Append(@, w)] ELSE st.it[x]],
           !.fan = [x \in WS |->
                     IF InLoop(st, x) /\ st.room_id[x] = r
                     THEN [st.fan[x] EXCEPT !.quiet = FALSE] ELSE st.fan[x]]]

\* Admit without the joined event of lines 68-82
Admit_NoJoined(w, st, commit_ok, user_query_ok) ==
    LET st1 == Register(w, [st EXCEPT !.room_code[w] = st.rooms[st.room_id[w]].code])
    IN  IF st.user_id[w] = None THEN AfterJoin(w, st1)
        ELSE LET st2 == Provision(w, st1, commit_ok)
             IN  IF st2.failed THEN Finally(w, st2, user_query_ok) ELSE AfterJoin(w, st2)

\* lines 37-90 for a room that exists, up to the first await
Admit(w, st, commit_ok, user_query_ok) ==
    LET r == st.room_id[w]
        st1 == Register(w, [st EXCEPT !.room_code[w] = st.rooms[r].code])
    IN  IF st.user_id[w] = None THEN AfterJoin(w, st1)
        ELSE LET st2 == Provision(w, st1, commit_ok)
             IN  IF st2.failed
                 THEN Finally(w, st2, user_query_ok)
                 ELSE IF UserRow(st.user_id[w]) THEN StartLoop(w, st2, "user_joined")
                 ELSE AfterJoin(w, st2)

\* A client opens /ws/{r}?token=tok and the handshake completes (line 25);
\* lines 27-42: the token is decoded, the room looked up.  Websocket objects
\* are numbered in the order they are opened.
Accept(w, r, tok, commit_ok, user_query_ok) ==
    /\ pc[w] = "idle"
    /\ \A x \in WS : x < w => pc[x] # "idle"
    /\ UNCHANGED <<issued, pending, updates>>
    /\ LET st == [Cur EXCEPT !.room_id[w] = r, !.user_id[w] = Authenticate(tok)]
       IN  IF r \notin DOMAIN rooms
           THEN Commit([st EXCEPT !.pc[w] = "nf_send"])
           ELSE Commit(Admit(w, st, commit_ok, user_query_ok))

\* line 25 raises: the client went away during the handshake; the try block
\* is never entered
AcceptRaises(w, r) ==
    /\ pc[w] = "idle"
    /\ \A x \in WS : x < w => pc[x] # "idle"
    /\ UNCHANGED <<issued, pending, updates>>
    /\ Commit(Done(w, [Cur EXCEPT !.room_id[w] = r]))

\* line 40
NotFoundSend(w) ==
    /\ pc[w] = "nf_send"
    /\ UNCHANGED <<issued, pending, updates>>
    /\ IF CanSend(Cur, w)
       THEN Commit([send_json(Cur, w, Frame("error", w, "Room not found"))
                        EXCEPT !.pc[w] = "nf_close"])
       ELSE Commit(Finally(w, Cur, TRUE))

\* lines 41-42, then the finally block
NotFoundClose(w) ==
    /\ pc[w] = "nf_close"
    /\ UNCHANGED <<issued, pending, updates>>
    /\ Commit(Finally(w, [Cur EXCEPT !.closed[w] = TRUE], TRUE))

\* LoopSend without the try/except around send_json: a failed send ends the handler
LoopSend_Raises(w, st, kind, frame) ==
    LET to == st.it[w].list[st.it[w].idx]
        i == NextTarget(st.it[w].list, st.it[w].idx + 1, w, SkipsSelf(kind))
        st2 == [send_json(st, to, frame) EXCEPT !.it[w].idx = i, !.fan[w].rcpt = @ \cup {to}]
    IN  IF ~CanSend(st, to)
        THEN (IF kind = "user_left" THEN Done(w, st) ELSE Finally(w, st, TRUE))
        ELSE IF i > Len(st.it[w].list) THEN LoopDone(w, st2, kind) ELSE st2

\* one send_json of a loop (lines 80, 102, 130) and the step to the next element
LoopSend(w, st, kind, frame) ==
    LET to == st.it[w].list[st.it[w].idx]
        st1 == IF CanSend(st, to) THEN send_json(st, to, frame) ELSE st
        i == NextTarget(st.it[w].list, st.it[w].idx + 1, w, SkipsSelf(kind))
        st2 == [st1 EXCEPT !.it[w].idx = i, !.fan[w].rcpt = @ \cup {to}]
    IN  IF i > Len(st.it[w].list) THEN LoopDone(w, st2, kind) ELSE st2

\* lines 77-82
SendJoined(w) ==
    /\ pc[w] = "join_fanout"
    /\ UNCHANGED <<issued, pending, updates>>
    /\ Commit(LoopSend(w, Cur, "user_joined", Frame("user_joined", w, user_id[w])))

\* line 86
SendInitial(w) ==
    /\ pc[w] = "init_send"
    /\ UNCHANGED <<issued, pending, updates>>
    /\ IF CanSend(Cur, w)
       THEN Commit([send_json(Cur, w, Frame("code", w, data[w])) EXCEPT !.pc[w] = "receive"])
       ELSE Commit(Finally(w, Cur, TRUE))

\* lines 92-96: the row written through the handler's session.  The ORM emits
\* the UPDATE only when the attribute differs from the value the session
\* loaded; a successful commit expires what the session holds.
StoreWrite(w, st, text, commit_ok) ==
    LET r == st.room_id[w]
    IN  IF r \notin DOMAIN st.rooms THEN st
        ELSE IF ~commit_ok THEN [st EXCEPT !.failed = TRUE]
        ELSE IF st.room_code[w] # Expired /\ st.room_code[w] = text
        THEN [st EXCEPT !.room_code[w] = Expired]
        ELSE [st EXCEPT !.rooms[r].code = text, !.room_code[w] = Expired]

\* lines 90-99: a text frame arrives
ReceiveText(w, text, commit_ok, user_query_ok) ==
    /\ pc[w] = "receive"
    /\ ~closed[w]
    /\ updates' = updates + 1
    /\ UNCHANGED <<issued, pending>>
    /\ LET st == StoreWrite(w, [Cur EXCEPT !.data[w] = text], text, commit_ok)
       IN  IF st.failed
           THEN Commit(Finally(w, st, user_query_ok))
           ELSE Commit(StartLoop(w, st, "code"))

\* line 90 raises WebSocketDisconnect
ReceiveDisconnect(w) ==
    /\ pc[w] = "receive"
    /\ closed[w]
    /\ UNCHANGED <<issued, pending, updates>>
    /\ Commit(Finally(w, Cur, TRUE))

\* lines 99-104
SendCode(w) ==
    /\ pc[w] = "code_fanout"
    /\ UNCHANGED <<issued, pending, updates>>
    /\ Commit(LoopSend(w, Cur, "code", Frame("code", w, data[w])))

\* lines 128-132
SendLeft(w) ==
    /\ pc[w] = "left_fanout"
    /\ UNCHANGED <<issued, pending, updates>>
    /\ Commit(LoopSend(w, Cur, "user_left", Frame("user_left", w, user_id[w])))

\* the steps of handler w, its inputs drawn from rooms R and tokens T, while
\* fewer than n text frames have been received
HandlerOn(w, R, T, n) ==
    \/ \E r \in R, t \in T, c, q \in BOOLEAN : Accept(w, r, t, c, q)
    \/ \E r \in R : AcceptRaises(w, r)
    \/ NotFoundSend(w)
    \/ NotFoundClose(w)
    \/ SendJoined(w)
    \/ SendInitial(w)
    \/ updates < n /\ \E text \in Docs, c, q \in BOOLEAN : ReceiveText(w, text, c, q)
    \/ ReceiveDisconnect(w)
    \/ SendCode(w)
    \/ SendLeft(w)

Next ==
    \/ \E r \in RoomIds : create_room("u1", r)
    \/ \E u \in Users, r \in RoomIds, p \in JoinPasswords : join_room_check(u, r, p)
    \/ \E u \in Users, r \in RoomIds : join_room_commit(u, r)
    \/ \E u \in Users, r \in RoomIds : delete_room(u, r)
    \/ \E w \in WS : ClientClose(w)
    \/ \E w \in WS : HandlerOn(w, RoomIds, Tokens, MaxUpdates)

Spec == Init /\ [][Next]_vars

\* ---- the specifications the properties are checked under ----------------
\* Admission and presence: the room endpoints and GateWS websockets; no text
\* frame is sent by a client.
GateWS == 1..NumGateWS

NextGate ==
    \/ \E r \in RoomIds : create_room("u1", r)
    \/ \E u \in Users, r \in RoomIds, p \in JoinPasswords : join_room_check(u, r, p)
    \/ \E u \in Users, r \in RoomIds : join_room_commit(u, r)
    \/ \E u \in Users, r \in RoomIds : delete_room(u, r)
    \/ \E w \in GateWS : ClientClose(w)
    \/ \E w \in GateWS, r \in RoomIds, t \in Tokens, c, q \in BOOLEAN : Accept(w, r, t, c, q)
    \/ \E w \in GateWS, r \in RoomIds : AcceptRaises(w, r)
    \/ \E w \in GateWS : NotFoundSend(w)
    \/ \E w \in GateWS : NotFoundClose(w)
    \/ \E w \in GateWS : SendJoined(w)
    \/ \E w \in GateWS : ReceiveDisconnect(w)
    \/ \E w \in GateWS : SendLeft(w)

SpecGate == Init /\ [][NextGate]_vars

\* The store after create_room("u1", "r1") and create_room("u1", "r2")
InitRooms ==
    /\ rooms = [r \in RoomIds |-> NewRoom("u1", r)]
    /\ issued = RoomIds
    /\ participants = [p \in RoomIds \X Users |-> IF p[2] = "u1" THEN 1 ELSE 0]
    /\ pending = [p \in RoomIds \X Users |-> 0]
    /\ connections = [r \in {} |-> <<>>]
    /\ pc = [w \in WS |-> "idle"]
    /\ room_id = [w \in WS |-> None]
    /\ user_id = [w \in WS |-> None]
    /\ room_code = [w \in WS |-> None]
    /\ data = [w \in WS |-> ""]
    /\ it = [w \in WS |-> NoIter]
    /\ closed = [w \in WS |-> FALSE]
    /\ sent = [w \in WS |-> <<>>]
    /\ updates = 0
    /\ fan = [w \in WS |-> NoFan]
    /\ attached_before = [w \in WS |-> {}]

\* Document sync between SyncWS websockets in the two rooms, which their
\* owner may delete.
SyncWS == 1..NumSyncWS

NextSync ==
    \/ \E u \in Users, r \in RoomIds : delete_room(u, r)
    \/ \E w \in SyncWS : ClientClose(w)
    \/ \E w \in SyncWS : HandlerOn(w, RoomIds, Tokens, MaxUpdates)

SpecSync == InitRooms /\ [][NextSync]_vars

RoomTokens == {NoToken, [present |-> TRUE, valid |-> TRUE, sub |-> "u1"]}

\* The event loop resumes a handler whose await can complete: every step of a
\* handler that waits for no input of its client is eventually taken.
Resumes(w) ==
    \/ NotFoundSend(w)
    \/ NotFoundClose(w)
    \/ SendJoined(w)
    \/ SendInitial(w)
    \/ ReceiveDisconnect(w)
    \/ SendCode(w)
    \/ SendLeft(w)

\* Exit paths: SyncWS websockets on the public room, which its owner may
\* delete, with at most MaxLiveUpdates text frames.
NextLive ==
    \/ delete_room("u1", "r1")
    \/ \E w \in SyncWS : ClientClose(w)
    \/ \E w \in SyncWS, t \in RoomTokens, c, q \in BOOLEAN : Accept(w, "r1", t, c, q)
    \/ \E w \in SyncWS : AcceptRaises(w, "r1")
    \/ \E w \in SyncWS : NotFoundSend(w)
    \/ \E w \in SyncWS : NotFoundClose(w)
    \/ \E w \in SyncWS : SendJoined(w)
    \/ \E w \in SyncWS : SendInitial(w)
    \/ \E w \in SyncWS, text \in Docs, c, q \in BOOLEAN :
            updates < MaxLiveUpdates /\ ReceiveText(w, text, c, q)
    \/ \E w \in SyncWS : ReceiveDisconnect(w)
    \/ \E w \in SyncWS : SendCode(w)
    \/ \E w \in SyncWS : SendLeft(w)

SpecLive == InitRooms /\ [][NextLive]_vars /\ \A w \in SyncWS : WF_vars(Resumes(w))

\* One public room with up to NumWS websockets, anonymous or its owner's.

NextRoom ==
    \/ \E w \in WS : ClientClose(w)
    \/ \E w \in WS, t \in RoomTokens, c, q \in BOOLEAN : Accept(w, "r1", t, c, q)
    \/ \E w \in WS : AcceptRaises(w, "r1")
    \/ \E w \in WS : SendJoined(w)
    \/ \E w \in WS : SendInitial(w)
    \/ \E w \in WS, text \in Docs, c, q \in BOOLEAN :
            updates < MaxRoomUpdates /\ ReceiveText(w, text, c, q)
    \/ \E w \in WS : ReceiveDisconnect(w)
    \/ \E w \in WS : SendCode(w)
    \/ \E w \in WS : SendLeft(w)

SpecRoom == InitRooms /\ [][NextRoom]_vars

\* The document of the public room written by SyncWS anonymous websockets, with
\* at most MaxStoreUpdates text frames.
NextStore ==
    \/ \E w \in SyncWS : ClientClose(w)
    \/ \E w \in SyncWS : Accept(w, "r1", NoToken, TRUE, TRUE)
    \/ \E w \in SyncWS : AcceptRaises(w, "r1")
    \/ \E w \in SyncWS : SendInitial(w)
    \/ \E w \in SyncWS, text \in Docs, c \in BOOLEAN :
            updates < MaxStoreUpdates /\ ReceiveText(w, text, c, TRUE)
    \/ \E w \in SyncWS : ReceiveDisconnect(w)
    \/ \E w \in SyncWS : SendCode(w)

SpecStore == InitRooms /\ [][NextStore]_vars

\* Up to NumWS anonymous websockets on the public room, with at most
\* MaxUpdates text frames, every store write succeeding.
NextTrio ==
    \/ \E w \in WS : ClientClose(w)
    \/ \E w \in WS : Accept(w, "r1", NoToken, TRUE, TRUE)
    \/ \E w \in WS : SendInitial(w)
    \/ \E w \in WS, text \in Docs :
            updates < MaxUpdates /\ ReceiveText(w, text, TRUE, TRUE)
    \/ \E w \in WS : ReceiveDisconnect(w)
    \/ \E w \in WS : SendCode(w)

SpecTrio == InitRooms /\ [][NextTrio]_vars

\* ---- properties ---------------------------------------------------------
Attached(w) == \E r \in DOMAIN connections : w \in Range(connections[r])

\* after the step, w is in the session set of the room it asked for
AttachedAfter(w) ==
    /\ room_id'[w] \in DOMAIN connections'
    /\ w \in Range(connections'[room_id'[w]])

\* the step is the one in which the handshake of w completes (line 25 returns)
Opens(w) == pc[w] = "idle" /\ pc'[w] # "idle"

\* the identity may enter the private room: it is the owner or a recorded member
MayEnter(u, r) ==
    /\ u # None
    /\ rooms[r].admin_id = u \/ participants[<<r, u>>] > 0

\* C1: a connection attempt to a private room ends attached to the room's
\* session set if and only if it carries the identity of the room's owner or
\* of a member recorded before the attempt; any other attempt is rejected with
\* the must-join-first reason and never attached.
C1_PrivateAdmission ==
    [][\A w \in WS :
         (Opens(w) /\ room_id'[w] \in DOMAIN rooms /\ rooms[room_id'[w]].is_private)
         => /\ AttachedAfter(w) <=> MayEnter(user_id'[w], room_id'[w])
            /\ ~MayEnter(user_id'[w], room_id'[w])
                 => sent'[w] = <<Frame("error", w, "must join room first")>>]_vars

\* C2: opening a connection to a private room adds no membership record.
C2_ConnectAddsNoMember ==
    [][\A w \in WS :
         (Opens(w) /\ room_id'[w] \in DOMAIN rooms /\ rooms[room_id'[w]].is_private)
         => participants' = participants]_vars

\* C3: every connection attempt to an existing public room, whatever its
\* token, ends attached to the room's session set; without a valid token the
\* connection has no identity and no membership record is written.
C3_PublicAdmission ==
    [][\A w \in WS :
         (Opens(w) /\ ~closed'[w] /\ room_id'[w] \in DOMAIN rooms
            /\ ~rooms[room_id'[w]].is_private)
         => /\ AttachedAfter(w)
            /\ user_id'[w] = None => participants' = participants]_vars

\* the handler of w found no room (line 39) and takes this step
NotFoundStep(w) ==
    /\ room_code[w] = None /\ room_code'[w] = None
    /\ <<pc[w], it[w]>> # <<pc'[w], it'[w]>>
    /\ room_id'[w] \notin DOMAIN rooms

\* C5: a connection attempt whose room is not in the store changes nothing in
\* the registry and delivers no frame to any other connection.
C5_NotFoundNoEffect ==
    [][\A w \in WS :
         NotFoundStep(w)
         => /\ connections' = connections
            /\ \A x \in WS \ {w} : sent'[x] = sent[x]]_vars

\* the frame the running loop of w sends, and the element it is about to send to
LoopFrame(w) ==
    CASE pc[w] = "join_fanout" -> Frame("user_joined", w, user_id[w])
      [] pc[w] = "code_fanout" -> Frame("code", w, data[w])
      [] pc[w] = "left_fanout" -> Frame("user_left", w, user_id[w])
LoopTarget(w) == it[w].list[it[w].idx]

\* the step is one send_json of the running loop of w
LoopStep(w) ==
    /\ pc[w] \in {"join_fanout", "code_fanout", "left_fanout"}
    /\ pc'[w] # pc[w] \/ it'[w].idx # it[w].idx

Has(log, type, src) == \E i \in 1..Len(log) : log[i].type = type /\ log[i].src = src

\* C4: each send of an update goes to a connection other than the sender and
\* reaches it when its transport is open; when the room's list did not change
\* during the fan-out, the connections sent to are exactly those attached at
\* its start, less the sender.
C4_UpdateRecipients ==
    [][\A a \in WS :
         (LoopStep(a) /\ pc[a] = "code_fanout")
         => /\ LoopTarget(a) # a
            /\ ~closed[LoopTarget(a)]
                 => sent'[LoopTarget(a)] = Append(sent[LoopTarget(a)], LoopFrame(a))
            /\ sent'[a] = sent[a]
            /\ (pc'[a] # "code_fanout" /\ fan[a].quiet)
                 => fan[a].rcpt \cup {LoopTarget(a)} = fan[a].start \ {a}]_vars

\* three connections in the room, one back in its receive loop after its
\* update reached the two others
C4_Witness ==
    \E a \in WS :
       /\ pc[a] = "receive"
       /\ "r1" \in DOMAIN connections /\ Len(connections["r1"]) = 3
       /\ \A x \in WS \ {a} : Has(sent[x], "code", a)
       /\ ~Has(sent[a], "code", a)

\* where a loop goes when it ends without an exception
AfterLoop(p) ==
    CASE p = "join_fanout" -> {"init_send", "receive"}
      [] p = "code_fanout" -> {"receive"}
      [] p = "left_fanout" -> {"done"}

\* C7: in every fan-out a send that fails (the recipient's transport is
\* closed) is followed by the send to the next element, or by the normal end
\* of the loop; the sender stays attached unless it is leaving; and when the
\* loop ends every element of the list but the sender has been sent to.
C7_BestEffortFanout ==
    [][\A w \in WS :
         LoopStep(w)
         => /\ ~closed[LoopTarget(w)]
                 => sent'[LoopTarget(w)] = Append(sent[LoopTarget(w)], LoopFrame(w))
            /\ closed[LoopTarget(w)]
                 => /\ pc'[w] \in {pc[w]} \cup AfterLoop(pc[w])
                    /\ pc'[w] = pc[w] => it'[w].idx > it[w].idx
                    /\ pc[w] # "left_fanout" => AttachedAfter(w)
            /\ pc'[w] # pc[w]
                 => fan[w].rcpt \cup {LoopTarget(w)}
                      = Range(it[w].list) \ (IF pc[w] = "left_fanout" THEN {} ELSE {w})]_vars

\* x was attached before y, x's client is gone, and an update of w reached y
\* but not x: the send to x failed and the loop went on to y
C7_Witness ==
    \E w, x, y \in WS :
       /\ "r1" \in DOMAIN connections
       /\ \E i, j \in 1..Len(connections["r1"]) :
             i < j /\ connections["r1"][i] = x /\ connections["r1"][j] = y
       /\ closed[x] /\ ~closed[y] /\ w \notin {x, y}
       /\ pc[w] = "receive"
       /\ Has(sent[y], "code", w)
       /\ ~Has(sent[x], "code", w)

\* C6: an update received while other connections are attached is fanned out
\* to them and its sender stays attached, whether or not the store took the
\* write.
C6_BroadcastDespiteStoreFailure ==
    [][\A w \in WS :
         (pc[w] = "receive" /\ updates' = updates + 1 /\ pc'[w] # "receive")
         => pc'[w] = "code_fanout" /\ AttachedAfter(w)]_vars

\* C8: a handler that has ended, or is past its detach, is in no session set;
\* and an attached connection whose transport is closed is eventually in none.
C8_AttachDetachPaired ==
    /\ [](\A w \in WS : pc[w] \in {"done", "left_fanout"} => ~Attached(w))
    /\ \A w \in WS : (Attached(w) /\ closed[w]) ~> ~Attached(w)

\* a connection that was admitted, lost its client and is now notifying the
\* others of its departure
C8_Witness ==
    \E w \in WS :
       pc[w] = "left_fanout" /\ room_code[w] # None /\ closed[w] /\ ~Attached(w)

\* C9: in what is sent to a connection V that was attached when the
\* identified connection U attached, every update of U comes after the
\* joined event of U.
C9_JoinedBeforeUpdate ==
    \A u \in WS : \A v \in attached_before[u] :
       user_id[u] # None
       => \A i \in 1..Len(sent[v]) :
             (sent[v][i].type = "code" /\ sent[v][i].src = u)
             => \E j \in 1..(i - 1) :
                   sent[v][j] = Frame("user_joined", u, user_id[u])

C9_Witness ==
    \E u \in WS : \E v \in attached_before[u] :
       user_id[u] # None /\ Has(sent[v], "user_joined", u) /\ Has(sent[v], "code", u)

\* C10: while a handler sends its left event it is in no session set, its own
\* websocket is not in the list it iterates and has not been sent the event.
C10_LeftAfterDetach ==
    \A w \in WS :
       pc[w] = "left_fanout"
       => /\ ~Attached(w)
          /\ w \notin Range(it[w].list)
          /\ w \notin fan[w].rcpt

\* an admitted connection has ended and its left event was sent to another
C10_Witness ==
    \E w \in WS, x \in WS :
       /\ pc[w] = "done" /\ room_id[w] \in DOMAIN rooms
       /\ Has(sent[x], "user_left", w)

\* the step takes w out of the session set it was in
Detaches(w) ==
    /\ Attached(w)
    /\ ~\E r \in DOMAIN connections' : w \in Range(connections'[r])

\* C11: when an identified connection, whose joined event was broadcast when
\* it attached, leaves its room's session set while other connections remain
\* in it, its handler goes on to send the left event to every remaining
\* connection.
C11_NoMissedLeave ==
    [][\A w \in WS :
         (/\ Detaches(w)
          /\ \E x \in WS : Has(sent[x], "user_joined", w)
          /\ room_id[w] \in DOMAIN connections')
         => /\ pc'[w] = "left_fanout"
            /\ fan'[w].kind = "user_left"
            /\ it'[w].list = connections'[room_id[w]]]_vars

Presence == {"user_joined", "user_left"}

\* C12: a connection without identity never runs the joined or the left loop,
\* and every joined or left frame sent to any connection carries the identity
\* of the connection it is about.
C12_AnonymousNoPresence ==
    /\ \A w \in WS : user_id[w] = None => pc[w] \notin {"join_fanout", "left_fanout"}
    /\ \A x \in WS : \A i \in 1..Len(sent[x]) :
          sent[x][i].type \in Presence
          => /\ user_id[sent[x][i].src] # None
             /\ sent[x][i].content = user_id[sent[x][i].src]

\* an anonymous connection sent an update to x and has ended; x, still
\* attached, holds no joined and no left frame of it
C12_Witness ==
    \E w, x \in WS :
       /\ user_id[w] = None /\ pc[w] = "done"
       /\ pc[x] = "receive" /\ Attached(x)
       /\ Has(sent[x], "code", w)
       /\ ~Has(sent[x], "user_joined", w) /\ ~Has(sent[x], "user_left", w)

\* the step is the handler of w receiving `text` and committing it (lines 90-96)
WritesUpdate(w, text) == \E q \in BOOLEAN : ReceiveText(w, text, TRUE, q)

\* C13: when the handler of a connection attached to an existing room has
\* written an update, the stored document is exactly that update's payload,
\* whatever was written before.
C13_LastWriteWins ==
    [][\A w \in WS, text \in Docs :
         (WritesUpdate(w, text) /\ room_id[w] \in DOMAIN rooms)
         => rooms'[room_id[w]].code = text]_vars

\* C14: when the handler of B processes an update of B while the fan-out of
\* an update of A, received earlier, is under way (A is suspended in a
\* send_json after the frame of an earlier recipient was written) and B was
\* attached when that fan-out began, A's update has already been sent to B.
C14_EarlierBroadcastFirst ==
    [][\A a, b \in WS :
         (/\ a # b
          /\ \E text \in Docs : WritesUpdate(b, text)
          /\ pc[a] = "code_fanout" /\ room_id[a] = room_id[b]
          /\ fan[a].rcpt # {}
          /\ b \in fan[a].start)
         => b \in fan[a].rcpt]_vars

\* the step is the handler of w taking a text frame from receive_text
ReceivesUpdate(w) ==
    /\ updates' = updates + 1
    /\ <<pc[w], data[w], room_code[w]>> # <<pc'[w], data'[w], room_code'[w]>>

\* C15: a handler takes the next update of its connection only when the
\* fan-out of the previous one has ended; the payload of a running fan-out is
\* the update last received and does not change until it ends; and the stored
\* document changes only in the step that receives an update.  So the updates
\* of one connection are written and sent to each sibling in the order received.
C15_PerConnectionOrder ==
    [][\A w \in WS :
         /\ ReceivesUpdate(w)
              => pc[w] = "receive" /\ it[w] = NoIter /\ fan[w] = NoFan
         /\ (pc[w] = "code_fanout" /\ pc'[w] = "code_fanout") => data'[w] = data[w]
         /\ (LoopStep(w) /\ pc[w] = "code_fanout" /\ ~closed[LoopTarget(w)])
              => sent'[LoopTarget(w)]
                   = Append(sent[LoopTarget(w)], Frame("code", w, data[w]))
         /\ \A r \in DOMAIN rooms \cap DOMAIN rooms' :
               rooms'[r].code # rooms[r].code
               => updates' = updates + 1 /\ ~\E x \in WS : LoopStep(x)]_vars

\* w sent "a" then "b"; a sibling holds both frames, "a" before "b"
C15_Witness ==
    \E w, x \in WS :
       /\ w # x /\ pc[w] = "receive" /\ Attached(w)
       /\ \E i, j \in 1..Len(sent[x]) :
             /\ i < j
             /\ sent[x][i] = Frame("code", w, "a")
             /\ sent[x][j] = Frame("code", w, "b")

\* C16: the membership table holds at most one row for every (room, user).
C16_OneMembershipRow ==
    \A p \in RoomIds \X Users : participants[p] <= 1

\* C17: when an identified non-member connects to a public room and no
\* membership row results (the write failed), the connection is attached all
\* the same and its handler goes on to the joined event, the initial document
\* and the receive loop.
C17_ProvisioningAdvisory ==
    [][\A w \in WS :
         (/\ Opens(w) /\ user_id'[w] # None
          /\ room_id'[w] \in DOMAIN rooms /\ ~rooms[room_id'[w]].is_private
          /\ participants[<<room_id'[w], user_id'[w]>>] = 0
          /\ participants'[<<room_id'[w], user_id'[w]>>] = 0)
         => /\ AttachedAfter(w)
            /\ pc'[w] \in {"join_fanout", "init_send", "receive"}]_vars

\* no fan-out is under way in the public room: every attached connection is
\* open and its handler waits in receive_text
Settled ==
    /\ "r1" \in DOMAIN connections
    /\ \A w \in Range(connections["r1"]) : pc[w] = "receive" /\ ~closed[w]

\* the handler of w has not committed an update (its session still holds the
\* room as loaded at line 38)
SentNoUpdate(w) == room_code[w] \notin {None, Expired}

\* C18: with three or more connections attached and every update written and
\* fanned out, a connection that sent no update itself and was last delivered
\* an update of another connection holds the stored document.
C18_Convergence ==
    (Settled /\ Len(connections["r1"]) >= 3)
    => \A w \in Range(connections["r1"]) :
          (SentNoUpdate(w) /\ sent[w] # <<>> /\ sent[w][Len(sent[w])].src # w)
          => sent[w][Len(sent[w])].content = rooms["r1"].code

\* C19: every send of a fan-out goes to a connection that was in the room's
\* session set when the fan-out began.
C19_PointInTimeView ==
    [][\A a \in WS :
         (LoopStep(a) /\ pc[a] = "code_fanout") => LoopTarget(a) \in fan[a].start]_vars

\* the text of the last document frame in what was sent to a connection
LastDoc(log) ==
    LET I == {i \in 1..Len(log) : log[i].type = "code"}
    IN  log[CHOOSE i \in I : \A j \in I : j <= i].content

\* C20: when the handler of a connection that has already been sent an update
\* of another connection reads the document for the initial frame (line 85),
\* the text it is about to send is the stored document, or at least the text
\* of the update last sent to that connection.
C20_InitialFrameNotStale ==
    [][\A w \in WS :
         (/\ pc[w] = "join_fanout" /\ pc'[w] = "init_send"
          /\ \E x \in WS \ {w} : Has(sent[w], "code", x))
         => \/ data'[w] = rooms[room_id[w]].code
            \/ data'[w] = LastDoc(sent[w])]_vars

\* where a handler stands between its attach (line 50) and its detach (line 111)
Active == {"join_fanout", "init_send", "receive", "code_fanout"}

\* the session set of room r
SessionSet(r) == IF r \in DOMAIN connections THEN Range(connections[r]) ELSE {}

\* C21: the session set of every room is exactly the set of connections
\* whose handlers attached to it and have not yet detached, each listed once,
\* however the attaches and detaches of the handlers interleave.
C21_RegistryReplay ==
    \A r \in RoomIds :
       /\ SessionSet(r) = {w \in WS : room_id[w] = r /\ pc[w] \in Active}
       /\ r \in DOMAIN connections => Len(connections[r]) = Cardinality(SessionSet(r))

\* two connections are attached to the room; a third, which sent an update
\* to one of them while attached, has detached
C21_Witness ==
    \E a, b, c \in WS :
       /\ a # b /\ {a, b} = SessionSet("r1")
       /\ pc[c] = "done" /\ room_id[c] = "r1"
       /\ Has(sent[a], "code", c)

\* C22: every room id that is a key of the registry maps to a non-empty
\* list: the key of a room is gone once its last connection has detached.
C22_EmptySetsPruned ==
    \A r \in DOMAIN connections : connections[r] # <<>>

\* a connection wrote an update to the room while attached; its handler has
\* ended, no connection is left in the room and the room's key is gone
C22_Witness ==
    \E w \in WS, r \in DOMAIN rooms :
       /\ pc[w] = "done" /\ room_id[w] = r
       /\ rooms[r].code \in Docs
       /\ \A x \in WS : room_id[x] = r => pc[x] = "done"
       /\ r \notin DOMAIN connections

\* C23: no connection is in the session sets of two rooms.
C23_RegistryExclusive ==
    \A r, q \in DOMAIN connections :
       r # q => Range(connections[r]) \cap Range(connections[q]) = {}

\* both rooms have a connection attached, and a connection is attached to a
\* room whose key existed beside the other room's when it attached
C23_Witness ==
    /\ DOMAIN connections = RoomIds
    /\ \E w, x \in WS :
          /\ w < x
          /\ w \in Range(connections["r1"]) /\ x \in Range(connections["r2"])
          /\ pc[w] = "receive" /\ pc[x] = "receive"

====
